---- MODULE Spec2Model ----
(***************************************************************************)
(* The ordered-collection engine of kheina-com/sets (src/sets.py): the     *)
(* relational store (tables sets and set_post), the Set Cache (SetKVS),    *)
(* the fire-and-forget cache writes and the handlers of class Sets.        *)
(*                                                                         *)
(* A SQL statement is modelled by its relational meaning and commits or    *)
(* aborts as a whole (commit=True).  Optional values are sequences of      *)
(* length 0 or 1.                                                          *)
(***************************************************************************)
EXTENDS Integers, Sequences, FiniteSets, TLC

\* ------------------------------------------------------------------ bounds
MaxClock == 2       \* number of now() readings (create_set and update_set)
MaxIndex == 2       \* requested indices 0 .. MaxIndex of add_post_to_set
FarIndex == 5       \* and one requested index far beyond any count
MaxDrift == 1       \* how far a cached count is followed below the store's
MaxEntries == 3     \* rows the set_post table holds at most
MaxExpire == 1      \* records the cache drops
MaxTasks == 2       \* requests under way at the same time
MaxPending == 2     \* cache writes on their way while requests overlap

\* ------------------------------------------------------------------ inputs
SetIds == {1, 2}
Users == {7, 8, 9}
Mods == {9}
Creators == {7}
Posts == {100, 200, 300}
PrivatePosts == {300}
Uploader == (100 :> 7) @@ (200 :> 7) @@ (300 :> 8)
Indices == (0 .. MaxIndex) \cup {FarIndex}

Absent == << >>
Some(x) == << x >>

\* get_post_sets: neighbor_range, and the stores it is asked about
neighbor_range == 3
MaxWindowEntries == 6
WindowPost(k) == 100 * (k + 1)
OtherPosts == <<300, 100, 700>>

\* UpdateSetRequest: the masks tried and the two sets of new values.
Masks ==
    { <<"title">>, <<"owner", "privacy", "description">>,
      <<"bogus">>, <<"owner", "bogus">>, <<"bogus", "title", "junk">> }

Values ==
    { [owner |-> "u8", title |-> "Renamed", description |-> Some("about"),
       privacy |-> "private"] }

UpdateSetRequest ==
    { [mask |-> m, owner |-> v.owner, title |-> v.title,
       description |-> v.description, privacy |-> v.privacy] :
      m \in Masks, v \in Values }

\* -------------------------------------------------------------------- state
VARIABLES
    sets,          \* table kheina.public.sets: a set of rows
    set_post,      \* table kheina.public.set_post: a set of rows
    kvs,           \* SetKVS: set_id -> cached InternalSet, or Absent
    pending,       \* cache writes dispatched with ensure_future, not yet done
    now,           \* the store's clock
    op,            \* the request being answered, or NoRequest
    result,        \* what it returns or raises
    expired,       \* number of records the cache has dropped
    before,        \* history: store and cache as the request found them
    last_removed,  \* history: the last successful removal of a member
    tasks          \* the requests under way at the same time, by slot

vars == <<sets, set_post, kvs, pending, now, op, result, expired, before, last_removed, tasks>>

\* ------------------------------------------------------- external services
\* client.user_handle_to_id
user_handle_to_id(handle) == IF handle = "u7" THEN 7 ELSE 8

\* InternalPost.authorized: the post service's own privacy rule
post_authorized(post_id, user) ==
    \/ post_id \notin PrivatePosts
    \/ Uploader[post_id] = user
    \/ user \in Mods

\* InternalSet.authorized
authorized(iset, user) == user = iset.owner \/ user \in Mods

\* privacy_to_id(name) of the store and Sets._id_to_set_privacy
privacy_to_id(name) == IF name = "public" THEN 1 ELSE 2
_id_to_set_privacy(privacy_id) == IF privacy_id = 1 THEN "public" ELSE "private"

\* ---------------------------------------------------------------- results
set_not_found_err(set_id) ==
    "no data was found for the provided set id: " \o ToString(set_id) \o "."

post_not_found_err(post_id) ==
    "no data was found for the provided post id: " \o ToString(post_id) \o "."

Ok(value) == [kind |-> "ok", msg |-> "", value |-> value]
NotFound(msg) == [kind |-> "NotFound", msg |-> msg, value |-> Absent]
BadRequest(msg) == [kind |-> "BadRequest", msg |-> msg, value |-> Absent]
InternalServerError == [kind |-> "InternalServerError", msg |-> "", value |-> Absent]

Request(name, user, set_id, post_id, index, mask) ==
    [name |-> name, user |-> user, set_id |-> set_id, post_id |-> post_id,
     index |-> index, mask |-> mask]

\* ------------------------------------------------------------------ store
SetRow(set_id) == {t \in sets : t.set_id = set_id}
SetEntries(rows, set_id) == {r \in rows : r.set_id = set_id}

Min(a, b) == IF a <= b THEN a ELSE b

\* The posts of some entries in the order of their indices
RECURSIVE OrderOf(_)
OrderOf(rows) ==
    IF rows = {}
    THEN << >>
    ELSE LET r == CHOOSE x \in rows : \A q \in rows : x.index <= q.index
         IN  <<r.post_id>> \o OrderOf(rows \ {r})

\* InternalSet.set: the Set handed to the caller
ToSet(iset) ==
    [set_id |-> iset.set_id, owner |-> iset.owner, count |-> iset.count,
     title |-> iset.title, description |-> iset.description,
     privacy |-> iset.privacy, created |-> iset.created,
     updated |-> iset.updated, first |-> iset.first, last |-> iset.last]

\* The query of Sets._get_set: the sets row joined with f (lowest index)
\* and l (highest index) of the set's entries.
StoreLoad(set_id) ==
    LET rows == SetEntries(set_post, set_id)
        f == {r \in rows : \A q \in rows : r.index <= q.index}
        l == {r \in rows : \A q \in rows : r.index >= q.index}
        data == {<<t, a, b>> : t \in SetRow(set_id), a \in f, b \in l}
    IN  IF data = {}
        THEN Absent
        ELSE LET d == CHOOSE j \in data : TRUE
             IN  Some([set_id |-> set_id,
                       owner |-> d[1].owner,
                       title |-> d[1].title,
                       description |-> d[1].description,
                       privacy |-> _id_to_set_privacy(d[1].privacy),
                       created |-> d[1].created,
                       updated |-> d[1].updated,
                       first |-> Some(d[2].post_id),
                       last |-> Some(d[3].post_id),
                       count |-> d[3].index + 1])

\* Sets._get_set behind AerospikeCache: the cached record, else the store's.
\* Absent stands for the NotFound it raises.
_get_set(set_id) == IF kvs[set_id] # Absent THEN kvs[set_id] ELSE StoreLoad(set_id)

\* The cache after _get_set: a miss that loads a record stores it.
Populate(set_id) ==
    IF kvs[set_id] = Absent /\ StoreLoad(set_id) # Absent
    THEN [kvs EXCEPT ![set_id] = StoreLoad(set_id)]
    ELSE kvs

Put(set_id, iset) == [set_id |-> set_id, iset |-> iset]

NoRemoval == Absent
NoRequest == Request("", 0, 0, 0, 0, Absent)
Slots == 1 .. MaxTasks
NoTasks == [t \in Slots |-> Absent]
Idle == op = NoRequest

\* No request is being answered and no cache write is on its way.
Ready == Idle /\ pending = {}

\* What a request found: taken when it is served, dropped when it returns.
Found == Some([sets |-> sets, set_post |-> set_post, kvs |-> kvs, pending |-> pending])

Init ==
    /\ sets = {}
    /\ set_post = {}
    /\ kvs = [s \in SetIds |-> Absent]
    /\ pending = {}
    /\ now = 1
    /\ op = NoRequest
    /\ result = Ok(Absent)
    /\ before = Absent
    /\ expired = 0
    /\ last_removed = NoRemoval
    /\ tasks = NoTasks

\* ---------------------------------------------------------------- create_set
\* mutant: no candidate is ever taken for used
Collides_Never(set_id) == FALSE

\* SELECT count(1) FROM kheina.public.sets WHERE set_id = %s: the candidate
\* is in use, and another one is generated
Collides(set_id) == SetRow(set_id) # {}

create_set(user, title, privacy, description) ==
    /\ now <= MaxClock
    /\ \E set_id \in SetIds :
          /\ ~ Collides(set_id)
          /\ LET iset == [set_id |-> set_id, owner |-> user, count |-> 0,
                          title |-> title, description |-> description,
                          privacy |-> privacy, created |-> now,
                          updated |-> now, first |-> Absent, last |-> Absent]
             IN  /\ sets' = sets \cup
                       {[set_id |-> set_id, owner |-> user, title |-> title,
                         description |-> description,
                         privacy |-> privacy_to_id(privacy),
                         created |-> now, updated |-> now]}
                 /\ pending' = pending \cup {Put(set_id, iset)}
                 /\ result' = Ok(Some(ToSet(iset)))
                 /\ op' = Request("create_set", user, set_id, 0, 0, Absent)
                 /\ before' = Found
    /\ now' = now + 1
    /\ last_removed' = NoRemoval
    /\ UNCHANGED <<set_post, kvs, expired>>

\* ------------------------------------------------------------------ get_set
\* mutant: an unauthorized caller is told so
get_set_result_Forbidden(user, set_id) ==
    LET iset == _get_set(set_id)
    IN  IF iset = Absent
        THEN NotFound(set_not_found_err(set_id))
        ELSE IF authorized(iset[1], user)
             THEN Ok(Some(ToSet(iset[1])))
             ELSE [kind |-> "Forbidden", msg |-> set_not_found_err(set_id),
                   value |-> Absent]

get_set_result(user, set_id) ==
    LET iset == _get_set(set_id)
    IN  IF iset = Absent
        THEN NotFound(set_not_found_err(set_id))
        ELSE IF authorized(iset[1], user)
             THEN Ok(Some(ToSet(iset[1])))
             ELSE NotFound(set_not_found_err(set_id))

get_set(user, set_id) ==
    /\ op' = Request("get_set", user, set_id, 0, 0, Absent)
    /\ before' = Found
    /\ result' = get_set_result(user, set_id)
    /\ kvs' = Populate(set_id)
    /\ last_removed' = NoRemoval
    /\ UNCHANGED <<sets, set_post, pending, now, expired>>

\* --------------------------------------------------------------- update_set
\* Sets._verify_authorized, a coroutine function
_verify_authorized(user, iset) == user = iset.set_id \/ user \in Mods

\* update_set and delete_set call it without await: what they test is the
\* coroutine object, which is true whatever the coroutine would return.
CoroutineTruth(would_return) == TRUE

\* mutant: the loop ends at the first name it does not know
RECURSIVE MaskLoop_StopsAtFirstBad(_, _, _)
MaskLoop_StopsAtFirstBad(acc, req, mask) ==
    IF mask = << >>
    THEN acc
    ELSE LET m == Head(mask)
         IN  IF m = "owner"
             THEN MaskLoop_StopsAtFirstBad(
                      [acc EXCEPT !.iset.owner = user_handle_to_id(req.owner),
                                  !.query = Append(@, [col |-> m, owner |-> user_handle_to_id(req.owner)])],
                      req, Tail(mask))
             ELSE IF m = "title"
             THEN MaskLoop_StopsAtFirstBad(
                      [acc EXCEPT !.iset.title = req.title,
                                  !.query = Append(@, [col |-> m, title |-> req.title])],
                      req, Tail(mask))
             ELSE IF m = "description"
             THEN MaskLoop_StopsAtFirstBad(
                      [acc EXCEPT !.iset.description = req.description,
                                  !.query = Append(@, [col |-> m, description |-> req.description])],
                      req, Tail(mask))
             ELSE IF m = "privacy"
             THEN MaskLoop_StopsAtFirstBad(
                      [acc EXCEPT !.iset.privacy = req.privacy,
                                  !.query = Append(@, [col |-> m, privacy |-> privacy_to_id(req.privacy)])],
                      req, Tail(mask))
             ELSE [acc EXCEPT !.bad_mask = Append(@, m)]

\* The loop over req.mask: acc holds the in-memory iset, the columns of the
\* UPDATE with their parameters, and bad_mask.
RECURSIVE MaskLoop(_, _, _)
MaskLoop(acc, req, mask) ==
    IF mask = << >>
    THEN acc
    ELSE LET m == Head(mask)
             step ==
                 IF m = "owner"
                 THEN [acc EXCEPT !.iset.owner = user_handle_to_id(req.owner),
                                  !.query = Append(@, [col |-> m, owner |-> user_handle_to_id(req.owner)])]
                 ELSE IF m = "title"
                 THEN [acc EXCEPT !.iset.title = req.title,
                                  !.query = Append(@, [col |-> m, title |-> req.title])]
                 ELSE IF m = "description"
                 THEN [acc EXCEPT !.iset.description = req.description,
                                  !.query = Append(@, [col |-> m, description |-> req.description])]
                 ELSE IF m = "privacy"
                 THEN [acc EXCEPT !.iset.privacy = req.privacy,
                                  !.query = Append(@, [col |-> m, privacy |-> privacy_to_id(req.privacy)])]
                 ELSE [acc EXCEPT !.bad_mask = Append(@, m)]
         IN  MaskLoop(step, req, Tail(mask))

\* ", ".join(names)
RECURSIVE Join(_)
Join(names) ==
    IF Len(names) = 1
    THEN names[1]
    ELSE names[1] \o ", " \o Join(Tail(names))

BadMaskMessage(bad_mask) ==
    IF Len(bad_mask) = 1
    THEN "[" \o bad_mask[1] \o "] is not a valid mask value"
    ELSE "[" \o Join(bad_mask) \o "] are not valid mask values"

\* UPDATE kheina.public.sets SET <query>, updated = now() on one row
RECURSIVE UpdateRow(_, _, _)
UpdateRow(row, query, clock) ==
    IF query = << >>
    THEN [row EXCEPT !.updated = clock]
    ELSE LET q == Head(query)
             next ==
                 IF q.col = "owner" THEN [row EXCEPT !.owner = q.owner]
                 ELSE IF q.col = "title" THEN [row EXCEPT !.title = q.title]
                 ELSE IF q.col = "description"
                 THEN [row EXCEPT !.description = q.description]
                 ELSE [row EXCEPT !.privacy = q.privacy]
         IN  UpdateRow(next, Tail(query), clock)

update_set(user, set_id, req) ==
    LET loaded == _get_set(set_id)
    IN  /\ op' = Request("update_set", user, set_id, 0, 0, req.mask)
        /\ before' = Found
        /\ kvs' = Populate(set_id)
        /\ last_removed' = NoRemoval
        /\ UNCHANGED <<set_post, expired>>
        /\ IF loaded = Absent
           THEN /\ result' = NotFound(set_not_found_err(set_id))
                /\ UNCHANGED <<sets, pending, now>>
           ELSE IF ~ CoroutineTruth(_verify_authorized(user, loaded[1]))
           THEN /\ result' = NotFound(set_not_found_err(set_id))
                /\ UNCHANGED <<sets, pending, now>>
           ELSE LET acc == MaskLoop([iset |-> loaded[1], query |-> << >>,
                                     bad_mask |-> << >>], req, req.mask)
                IN  IF acc.bad_mask # << >>
                    THEN /\ result' = BadRequest(BadMaskMessage(acc.bad_mask))
                         /\ UNCHANGED <<sets, pending, now>>
                    ELSE /\ now <= MaxClock
                         /\ now' = now + 1
                         /\ sets' = (sets \ SetRow(set_id)) \cup
                                {UpdateRow(t, acc.query, now) : t \in SetRow(set_id)}
                         /\ IF SetRow(set_id) = {}
                            THEN \* RETURNING gave no row: data[0] raises
                                 /\ result' = InternalServerError
                                 /\ UNCHANGED pending
                            ELSE /\ result' = Ok(Absent)
                                 /\ pending' = pending \cup
                                        {Put(set_id, [acc.iset EXCEPT !.updated = now])}

\* --------------------------------------------------------------- delete_set
\* mutant: the first DELETE without its WHERE
DeleteEntries_AllSets(rows, set_id) == {}

\* DELETE FROM kheina.public.set_post WHERE set_id = %s
DeleteEntries(rows, set_id) == rows \ SetEntries(rows, set_id)

delete_set(user, set_id) ==
    LET loaded == _get_set(set_id)
    IN  /\ op' = Request("delete_set", user, set_id, 0, 0, Absent)
        /\ before' = Found
        /\ last_removed' = NoRemoval
        /\ UNCHANGED <<pending, now, expired>>
        /\ IF loaded = Absent
           THEN /\ result' = NotFound(set_not_found_err(set_id))
                /\ kvs' = Populate(set_id)
                /\ UNCHANGED <<sets, set_post>>
           ELSE IF ~ CoroutineTruth(_verify_authorized(user, loaded[1]))
           THEN /\ result' = NotFound(set_not_found_err(set_id))
                /\ kvs' = Populate(set_id)
                /\ UNCHANGED <<sets, set_post>>
           ELSE /\ set_post' = DeleteEntries(set_post, set_id)
                /\ sets' = sets \ SetRow(set_id)
                /\ kvs' = [kvs EXCEPT ![set_id] = Absent]
                /\ result' = Ok(Absent)

\* ------------------------------------------------- the set_post constraints
\* mutant: a store without UNIQUE (set_id, index)
\* PRIMARY KEY (set_id, post_id), UNIQUE (set_id, index) and the reference
\* to sets, as they stand when a statement ends.
Constraints_NoUniqueIndex(rows, set_rows) ==
    /\ \A r, q \in rows : r.set_id = q.set_id /\ r.post_id = q.post_id => r = q
    /\ \A r \in rows : \E t \in set_rows : t.set_id = r.set_id

\* mutant: a store without PRIMARY KEY (set_id, post_id)
Constraints_NoPrimaryKey(rows, set_rows) ==
    /\ \A r, q \in rows : r.set_id = q.set_id /\ r.index = q.index => r = q
    /\ \A r \in rows : \E t \in set_rows : t.set_id = r.set_id

Constraints(rows, set_rows) ==
    /\ \A r, q \in rows :
          r.set_id = q.set_id /\ (r.post_id = q.post_id \/ r.index = q.index)
              => r = q
    /\ \A r \in rows : \E t \in set_rows : t.set_id = r.set_id

\* ---------------------------------------------------------- add_post_to_set
\* mutant: the requested index taken as it comes, without least()
EffectiveIndex_Unclamped(rows, set_id, index) == index

\* CTE i: least(%s, count(1))
EffectiveIndex(rows, set_id, index) ==
    Min(index, Cardinality(SetEntries(rows, set_id)))

\* CTE _ : the rows whose index is raised by one
AddMoved(rows, set_id, index) ==
    {r \in SetEntries(rows, set_id) : r.index >= EffectiveIndex(rows, set_id, index)}

\* The whole statement: shift, then the row inserted at i.index
AddQuery(rows, set_id, post_id, index) ==
    LET moved == AddMoved(rows, set_id, index)
    IN  (rows \ moved)
            \cup {[r EXCEPT !.index = @ + 1] : r \in moved}
            \cup {[set_id |-> set_id, post_id |-> post_id,
                   index |-> EffectiveIndex(rows, set_id, index)]}

\* UNIQUE (set_id, index) is not deferrable, so it is tested row by row while
\* the statement runs, in an order the store does not promise: a statement
\* that moves rows may abort on a transient duplicate.
AddClash(rows, set_id, index) ==
    IF AddMoved(rows, set_id, index) = {} THEN {FALSE} ELSE BOOLEAN

\* mutant: the set is fetched but its authorization is not asked
add_authorized_SetUnchecked(ipost_ok, iset, user) ==
    IF ~ ipost_ok THEN "post"
    ELSE IF iset = Absent THEN "set"
    ELSE "ok"

\* The two checks of add_post_to_set and remove_post_from_set, in their
\* order: which NotFound is raised, or "ok"
add_authorized(ipost_ok, iset, user) ==
    IF ~ ipost_ok THEN "post"
    ELSE IF iset = Absent THEN "set"
    ELSE IF ~ authorized(iset[1], user) THEN "set"
    ELSE "ok"

\* mutant: the cache write is dispatched before the statement is awaited
add_post_to_set_PutsBeforeCommit(user, post_id, set_id, index) ==
    LET iset == _get_set(set_id)
        verdict == add_authorized(post_authorized(post_id, user), iset, user)
        rows == AddQuery(set_post, set_id, post_id, index)
        matches == /\ last_removed # NoRemoval
                   /\ last_removed[1].set_id = set_id
                   /\ last_removed[1].post_id = post_id
                   /\ ~ last_removed[1].readded
    IN  /\ op' = Request("add_post_to_set", user, set_id, post_id, index, Absent)
        /\ before' = Found
        /\ kvs' = Populate(set_id)
        /\ UNCHANGED <<sets, now, expired>>
        /\ IF verdict = "post"
           THEN /\ result' = NotFound(post_not_found_err(post_id))
                /\ last_removed' = NoRemoval
                /\ UNCHANGED <<set_post, pending>>
           ELSE IF verdict = "set"
           THEN /\ result' = NotFound(set_not_found_err(set_id))
                /\ last_removed' = NoRemoval
                /\ UNCHANGED <<set_post, pending>>
           ELSE \E clash \in AddClash(set_post, set_id, index) :
                  IF clash \/ ~ Constraints(rows, sets)
                  THEN /\ result' = InternalServerError
                       /\ last_removed' = NoRemoval
                       /\ pending' = pending \cup
                              {Put(set_id, [iset[1] EXCEPT !.count = @ + 1])}
                       /\ UNCHANGED set_post
                  ELSE /\ Cardinality(set_post) < MaxEntries
                       /\ set_post' = rows
                       /\ pending' = pending \cup
                              {Put(set_id, [iset[1] EXCEPT !.count = @ + 1])}
                       /\ result' = Ok(Absent)
                       /\ last_removed' =
                              IF matches
                              THEN Some([last_removed[1] EXCEPT !.readded = TRUE])
                              ELSE NoRemoval

add_post_to_set(user, post_id, set_id, index) ==
    LET iset == _get_set(set_id)
        verdict == add_authorized(post_authorized(post_id, user), iset, user)
        rows == AddQuery(set_post, set_id, post_id, index)
        matches == /\ last_removed # NoRemoval
                   /\ last_removed[1].set_id = set_id
                   /\ last_removed[1].post_id = post_id
                   /\ ~ last_removed[1].readded
    IN  /\ op' = Request("add_post_to_set", user, set_id, post_id, index, Absent)
        /\ before' = Found
        /\ kvs' = Populate(set_id)
        /\ UNCHANGED <<sets, now, expired>>
        /\ IF verdict = "post"
           THEN /\ result' = NotFound(post_not_found_err(post_id))
                /\ last_removed' = NoRemoval
                /\ UNCHANGED <<set_post, pending>>
           ELSE IF verdict = "set"
           THEN /\ result' = NotFound(set_not_found_err(set_id))
                /\ last_removed' = NoRemoval
                /\ UNCHANGED <<set_post, pending>>
           ELSE \E clash \in AddClash(set_post, set_id, index) :
                  IF clash \/ ~ Constraints(rows, sets)
                  THEN /\ result' = InternalServerError
                       /\ last_removed' = NoRemoval
                       /\ UNCHANGED <<set_post, pending>>
                  ELSE /\ Cardinality(set_post) < MaxEntries
                       /\ set_post' = rows
                       /\ pending' = pending \cup
                              {Put(set_id, [iset[1] EXCEPT !.count = @ + 1])}
                       /\ result' = Ok(Absent)
                       /\ last_removed' =
                              IF matches
                              THEN Some([last_removed[1] EXCEPT !.readded = TRUE])
                              ELSE NoRemoval

\* ----------------------------------------------------- remove_post_from_set
\* CTE deleted
Deleted(rows, set_id, post_id) ==
    {r \in rows : r.set_id = set_id /\ r.post_id = post_id}

\* mutant: the shift starts one entry too high
RemoveMoved_OneTooHigh(rows, set_id, post_id) ==
    {r \in SetEntries(rows, set_id) \ Deleted(rows, set_id, post_id) :
        \E d \in Deleted(rows, set_id, post_id) : r.index > d.index + 1}

\* mutant: the UPDATE without its condition on the set
RemoveMoved_AnySet(rows, set_id, post_id) ==
    {r \in rows \ Deleted(rows, set_id, post_id) :
        \E d \in Deleted(rows, set_id, post_id) : r.index >= d.index}

\* the rows whose index is lowered by one
RemoveMoved(rows, set_id, post_id) ==
    {r \in SetEntries(rows, set_id) \ Deleted(rows, set_id, post_id) :
        \E d \in Deleted(rows, set_id, post_id) : r.index >= d.index}

\* mutant: the UPDATE without its condition on the index
RemoveQuery_ShiftsAll(rows, set_id, post_id) ==
    LET moved == IF Deleted(rows, set_id, post_id) = {}
                 THEN {}
                 ELSE SetEntries(rows, set_id) \ Deleted(rows, set_id, post_id)
    IN  ((rows \ Deleted(rows, set_id, post_id)) \ moved)
            \cup {[r EXCEPT !.index = @ - 1] : r \in moved}

\* The whole statement: the row deleted, the rows above it shifted
RemoveQuery(rows, set_id, post_id) ==
    LET moved == RemoveMoved(rows, set_id, post_id)
    IN  ((rows \ Deleted(rows, set_id, post_id)) \ moved)
            \cup {[r EXCEPT !.index = @ - 1] : r \in moved}

RemoveClash(rows, set_id, post_id) ==
    IF Cardinality(RemoveMoved(rows, set_id, post_id)) < 2
    THEN {FALSE}
    ELSE BOOLEAN

RemovedCount(iset) == [iset EXCEPT !.count = @ - 1]

\* bound of the model: a cached count is followed at most MaxDrift below
\* the number of entries the store holds
WithinDrift(iset, rows) == Cardinality(SetEntries(rows, iset.set_id)) - iset.count <= MaxDrift

remove_post_from_set(user, post_id, set_id) ==
    LET iset == _get_set(set_id)
        verdict == add_authorized(post_authorized(post_id, user), iset, user)
        rows == RemoveQuery(set_post, set_id, post_id)
    IN  /\ op' = Request("remove_post_from_set", user, set_id, post_id, 0, Absent)
        /\ before' = Found
        /\ kvs' = Populate(set_id)
        /\ UNCHANGED <<sets, now, expired>>
        /\ IF verdict = "post"
           THEN /\ result' = NotFound(post_not_found_err(post_id))
                /\ last_removed' = NoRemoval
                /\ UNCHANGED <<set_post, pending>>
           ELSE IF verdict = "set"
           THEN /\ result' = NotFound(set_not_found_err(set_id))
                /\ last_removed' = NoRemoval
                /\ UNCHANGED <<set_post, pending>>
           ELSE \E clash \in RemoveClash(set_post, set_id, post_id) :
                  IF clash \/ ~ Constraints(rows, sets)
                  THEN /\ result' = InternalServerError
                       /\ last_removed' = NoRemoval
                       /\ UNCHANGED <<set_post, pending>>
                  ELSE /\ WithinDrift(RemovedCount(iset[1]), rows)
                       /\ set_post' = rows
                       /\ pending' = pending \cup {Put(set_id, RemovedCount(iset[1]))}
                       /\ result' = Ok(Absent)
                       /\ last_removed' =
                              IF Deleted(set_post, set_id, post_id) = {}
                              THEN NoRemoval
                              ELSE Some([set_id |-> set_id, post_id |-> post_id,
                                         order |-> OrderOf(SetEntries(set_post, set_id)
                                                     \ Deleted(set_post, set_id, post_id)),
                                         readded |-> FALSE])

\* ------------------------------------------------------------ get_post_sets
\* CTE post_sets: the entries of the post, each with the row of its set
post_sets(post_id) ==
    {[set |-> x[1], index |-> x[2].index] :
        x \in {y \in sets \X set_post :
                  y[2].post_id = post_id /\ y[1].set_id = y[2].set_id}}

\* post_sets INNER JOIN set_post ON set_post.set_id = post_sets.set_id
JoinedEntries(post_id) ==
    {r \in set_post : \E ps \in post_sets(post_id) : ps.set.set_id = r.set_id}

\* CTE f: ORDER BY set_post.index ASC LIMIT 1 -- one row for the whole
\* statement; which one, among equal indices, the store decides.
f(post_id) ==
    {r \in JoinedEntries(post_id) :
        \A q \in JoinedEntries(post_id) : r.index <= q.index}

\* CTE l: ORDER BY set_post.index DESC LIMIT 1
l(post_id) ==
    {r \in JoinedEntries(post_id) :
        \A q \in JoinedEntries(post_id) : r.index >= q.index}

\* mutant: the join without its BETWEEN
Neighbors_WholeSet(ps) ==
    {r \in set_post : r.set_id = ps.set.set_id /\ r.index # ps.index}

\* INNER JOIN set_post ON set_id AND index BETWEEN index - %s AND index + %s
\* AND set_post.index != post_sets.index
Neighbors(ps) ==
    {r \in set_post :
        /\ r.set_id = ps.set.set_id
        /\ r.index >= ps.index - neighbor_range
        /\ r.index <= ps.index + neighbor_range
        /\ r.index # ps.index}

\* The rows of the statement, given the row of f and the row of l
PostSetsData(post_id, frow, lrow) ==
    {[ps |-> x[1], neighbor |-> x[2], first |-> frow.post_id,
      last |-> lrow.post_id, last_index |-> lrow.index] :
        x \in {y \in post_sets(post_id) \X set_post :
                  /\ y[2] \in Neighbors(y[1])
                  /\ frow.set_id = y[1].set.set_id
                  /\ lrow.set_id = y[1].set.set_id}}

\* sorted(..., key=lambda x : x[0], reverse=...) then map to the posts
RECURSIVE Sorted(_, _)
Sorted(rows, reverse) ==
    IF rows = {}
    THEN << >>
    ELSE LET r == CHOOSE x \in rows :
                     \A q \in rows : IF reverse THEN x.index >= q.index
                                                ELSE x.index <= q.index
         IN  <<r.post_id>> \o Sorted(rows \ {r}, reverse)

\* One PostSet of the answer: the set of a row and the neighbors of its rows
PostSet(data, ps) ==
    LET posts == {d.neighbor : d \in {x \in data : x.ps.set.set_id = ps.set.set_id}}
        d0 == CHOOSE x \in data : x.ps = ps
    IN  [set_id |-> ps.set.set_id,
         owner |-> ps.set.owner,
         title |-> ps.set.title,
         description |-> ps.set.description,
         privacy |-> _id_to_set_privacy(ps.set.privacy),
         created |-> ps.set.created,
         updated |-> ps.set.updated,
         count |-> d0.last_index + 1,
         first |-> Some(d0.first),
         last |-> Some(d0.last),
         index |-> ps.index,
         before |-> Sorted({r \in posts : r.index < ps.index}, TRUE),
         after |-> Sorted({r \in posts : r.index > ps.index}, FALSE)]

\* The answer: one PostSet for every set of the rows the caller is
\* authorized for.  The rows come in no promised order: a set of PostSets.
PostSets(user, data) ==
    {PostSet(data, ps) : ps \in {d.ps : d \in {x \in data :
                                    authorized(x.ps.set, user)}}}

get_post_sets(user, post_id) ==
    /\ op' = Request("get_post_sets", user, 0, post_id, 0, Absent)
    /\ before' = Found
    /\ IF post_sets(post_id) = {}
       THEN result' = Ok(Some({}))
       ELSE \E frow \in f(post_id), lrow \in l(post_id) :
                result' = Ok(Some(PostSets(user, PostSetsData(post_id, frow, lrow))))
    /\ last_removed' = NoRemoval
    /\ UNCHANGED <<sets, set_post, kvs, pending, now, expired>>

\* --------------------------------------------------------- the cache itself
\* A dispatched SetKVS.put_async completes.
CachePut ==
    \E w \in pending :
        /\ Idle
        /\ kvs' = [kvs EXCEPT ![w.set_id] = Some(w.iset)]
        /\ pending' = pending \ {w}
        /\ UNCHANGED <<sets, set_post, now, op, result, expired, before, last_removed, tasks>>

\* The cache drops a record (expiry, eviction, restart of the cache).
CacheExpire ==
    \E set_id \in SetIds :
        /\ Ready
        /\ expired < MaxExpire
        /\ kvs[set_id] # Absent
        /\ kvs' = [kvs EXCEPT ![set_id] = Absent]
        /\ expired' = expired + 1
        /\ UNCHANGED <<sets, set_post, pending, now, op, result, before, last_removed, tasks>>

\* The answer reaches the caller.
Return ==
    /\ ~ Idle
    /\ op' = NoRequest
    /\ result' = Ok(Absent)
    /\ before' = Absent
    /\ last_removed' =
           IF last_removed # NoRemoval /\ last_removed[1].readded
           THEN NoRemoval
           ELSE last_removed
    /\ UNCHANGED <<sets, set_post, kvs, pending, now, expired, tasks>>

\* The requests of the public interface (src/server.py), served one after
\* the other, each after the cache writes of the one before it completed.

CreateSet ==
    \E u \in Creators : Ready /\ create_set(u, "Favorites", "public", Absent) /\ UNCHANGED tasks

GetSet ==
    \E u \in Users, s \in SetIds : Ready /\ get_set(u, s) /\ UNCHANGED tasks

UpdateSet ==
    \E u \in Users, s \in SetIds, req \in UpdateSetRequest :
        Ready /\ update_set(u, s, req) /\ UNCHANGED tasks

DeleteSet ==
    \E u \in Users, s \in SetIds : Ready /\ delete_set(u, s) /\ UNCHANGED tasks

AddPostToSet ==
    \E u \in Users, p \in Posts, s \in SetIds, i \in Indices :
        Ready /\ add_post_to_set(u, p, s, i) /\ UNCHANGED tasks

RemovePostFromSet ==
    \E u \in Users, p \in Posts, s \in SetIds :
        Ready /\ remove_post_from_set(u, p, s) /\ UNCHANGED tasks

Next ==
    \/ CreateSet
    \/ GetSet
    \/ UpdateSet
    \/ DeleteSet
    \/ AddPostToSet
    \/ RemovePostFromSet
    \/ Return
    \/ CachePut

Spec == Init /\ [][Next]_vars

\* Creation, reads and inserts with a cache that may drop records.
EvictNext ==
    \/ CreateSet
    \/ GetSet
    \/ AddPostToSet
    \/ Return
    \/ CachePut
    \/ CacheExpire

EvictSpec == Init /\ [][EvictNext]_vars

\* ---------------------------------------------------- requests that overlap
\* A handler gives way at each await: another request, or a cache write,
\* may run between its steps.  A request under way holds what it loaded
\* (iset, and for update_set the columns of its UPDATE), and while its
\* statement runs, the rows the statement saw when it began (snap) and the
\* keys of the rows deleted since (gone).
Task(name, user, set_id, post_id, index, pc, iset, query) ==
    [name |-> name, user |-> user, set_id |-> set_id, post_id |-> post_id,
     index |-> index, pc |-> pc, iset |-> iset, query |-> query,
     snap |-> {}, gone |-> {}]

FreeSlot(t) == tasks[t] = Absent /\ \A u \in Slots : u < t => tasks[u] # Absent
At(t, name, pc) == tasks[t] # Absent /\ tasks[t][1].name = name /\ tasks[t][1].pc = pc
Keys(rows) == {<<r.set_id, r.post_id>> : r \in rows}

\* The other statements under way learn of the rows a commit deleted.
Leave(t, deleted) ==
    [u \in Slots |->
        IF u = t \/ tasks[u] = Absent THEN Absent
        ELSE IF tasks[u][1].pc = "running"
        THEN Some([tasks[u][1] EXCEPT !.gone = @ \cup Keys(deleted)])
        ELSE tasks[u]]

Keep(t, deleted) ==
    [u \in Slots |->
        IF u = t THEN tasks[t]
        ELSE IF tasks[u] # Absent /\ tasks[u][1].pc = "running"
        THEN Some([tasks[u][1] EXCEPT !.gone = @ \cup Keys(deleted)])
        ELSE tasks[u]]

\* The inputs of the overlapping requests: all on one set, by a moderator
RaceSets == {1}
RaceCallers == Mods
RacePosts == {200, 300}
RaceRemovals == {100}
RaceIndices == {0, FarIndex}
RaceRequests == {req \in UpdateSetRequest : req.mask = <<"title">>}

\* They start when user 7 has created set 1 and added post 100 to it, and
\* the cache writes of both have completed.
CreatedSet ==
    [set_id |-> 1, owner |-> 7, count |-> 1, title |-> "Favorites",
     description |-> Absent, privacy |-> "public", created |-> 1, updated |-> 1,
     first |-> Absent, last |-> Absent]

RaceInit ==
    /\ sets = {[set_id |-> 1, owner |-> 7, title |-> "Favorites",
                description |-> Absent, privacy |-> privacy_to_id("public"),
                created |-> 1, updated |-> 1]}
    /\ set_post = {[set_id |-> 1, post_id |-> 100, index |-> 0]}
    /\ kvs = [s \in SetIds |-> IF s = 1 THEN Some(CreatedSet) ELSE Absent]
    /\ pending = {}
    /\ now = 2
    /\ op = NoRequest
    /\ result = Ok(Absent)
    /\ before = Absent
    /\ expired = 0
    /\ last_removed = NoRemoval
    /\ tasks = NoTasks

\* A statement that began before another one committed (the store's default
\* isolation, read committed): it chooses its rows in the rows it saw when it
\* began, and a row that was changed since is tested again, as it is now,
\* before it is changed; a row deleted since is passed over, a row inserted
\* since is not seen, but stands in the way of the constraints.
AddMovedRC(cur, snap, gone, set_id, index) ==
    {c \in SetEntries(cur, set_id) :
        /\ <<c.set_id, c.post_id>> \notin gone
        /\ \E r \in AddMoved(snap, set_id, index) : r.post_id = c.post_id
        /\ c.index >= EffectiveIndex(snap, set_id, index)}

AddQueryRC(cur, snap, gone, set_id, post_id, index) ==
    LET moved == AddMovedRC(cur, snap, gone, set_id, index)
    IN  (cur \ moved)
            \cup {[r EXCEPT !.index = @ + 1] : r \in moved}
            \cup {[set_id |-> set_id, post_id |-> post_id,
                   index |-> EffectiveIndex(snap, set_id, index)]}

DeletedRC(cur, snap, gone, set_id, post_id) ==
    {c \in Deleted(cur, set_id, post_id) :
        /\ <<c.set_id, c.post_id>> \notin gone
        /\ Deleted(snap, set_id, post_id) # {}}

RemoveMovedRC(cur, snap, gone, set_id, post_id) ==
    {c \in SetEntries(cur, set_id) \ DeletedRC(cur, snap, gone, set_id, post_id) :
        /\ <<c.set_id, c.post_id>> \notin gone
        /\ \E d \in DeletedRC(cur, snap, gone, set_id, post_id) :
              /\ c.index >= d.index
              /\ \E r \in SetEntries(snap, set_id) :
                    r.post_id = c.post_id /\ r.index >= d.index}

RemoveQueryRC(cur, snap, gone, set_id, post_id) ==
    LET moved == RemoveMovedRC(cur, snap, gone, set_id, post_id)
    IN  ((cur \ DeletedRC(cur, snap, gone, set_id, post_id)) \ moved)
            \cup {[r EXCEPT !.index = @ - 1] : r \in moved}

\* add_post_to_set up to the statement: lines 323-332
BeginAdd(t, user, post_id, set_id, index) ==
    LET iset == _get_set(set_id)
        verdict == add_authorized(post_authorized(post_id, user), iset, user)
    IN  /\ Idle
        /\ FreeSlot(t)
        /\ kvs' = Populate(set_id)
        /\ last_removed' = NoRemoval
        /\ UNCHANGED <<sets, set_post, pending, now, expired>>
        /\ IF verdict = "ok"
           THEN /\ tasks' = [tasks EXCEPT ![t] = Some(Task("add_post_to_set", user,
                                 set_id, post_id, index, "loaded", iset[1], << >>))]
                /\ UNCHANGED <<op, result, before>>
           ELSE /\ op' = Request("add_post_to_set", user, set_id, post_id, index, Absent)
                /\ before' = Found
                /\ result' = IF verdict = "post"
                             THEN NotFound(post_not_found_err(post_id))
                             ELSE NotFound(set_not_found_err(set_id))
                /\ UNCHANGED tasks

\* remove_post_from_set up to the statement: lines 366-375
BeginRemove(t, user, post_id, set_id) ==
    LET iset == _get_set(set_id)
        verdict == add_authorized(post_authorized(post_id, user), iset, user)
    IN  /\ Idle
        /\ FreeSlot(t)
        /\ kvs' = Populate(set_id)
        /\ last_removed' = NoRemoval
        /\ UNCHANGED <<sets, set_post, pending, now, expired>>
        /\ IF verdict = "ok"
           THEN /\ tasks' = [tasks EXCEPT ![t] = Some(Task("remove_post_from_set", user,
                                 set_id, post_id, 0, "loaded", iset[1], << >>))]
                /\ UNCHANGED <<op, result, before>>
           ELSE /\ op' = Request("remove_post_from_set", user, set_id, post_id, 0, Absent)
                /\ before' = Found
                /\ result' = IF verdict = "post"
                             THEN NotFound(post_not_found_err(post_id))
                             ELSE NotFound(set_not_found_err(set_id))
                /\ UNCHANGED tasks

\* The statement of an add or a remove begins: it sees the rows of now.
StartStatement(t) ==
    /\ Idle
    /\ tasks[t] # Absent
    /\ tasks[t][1].pc = "loaded"
    /\ tasks[t][1].name \in {"add_post_to_set", "remove_post_from_set"}
    /\ tasks' = [tasks EXCEPT ![t] = Some([tasks[t][1] EXCEPT
                                              !.pc = "running", !.snap = set_post])]
    /\ UNCHANGED <<sets, set_post, kvs, pending, now, op, result, expired, before,
                   last_removed>>

\* The statement of add_post_to_set ends, lines 334-359, and then 361-362
CommitAdd(t) ==
    /\ Idle
    /\ At(t, "add_post_to_set", "running")
    /\ LET k == tasks[t][1]
           rows == AddQueryRC(set_post, k.snap, k.gone, k.set_id, k.post_id, k.index)
           moved == AddMovedRC(set_post, k.snap, k.gone, k.set_id, k.index)
           \* the row of the post that stands in the set, beside the new one
           held == {c \in set_post : c.set_id = k.set_id /\ c.post_id = k.post_id}
                       \cup {[set_id |-> k.set_id, post_id |-> k.post_id, index |-> -1]}
       IN  /\ op' = Request("add_post_to_set", k.user, k.set_id, k.post_id, k.index, Absent)
           /\ before' = Found
           /\ tasks' = Leave(t, {})
           /\ last_removed' = NoRemoval
           /\ UNCHANGED <<sets, kvs, now, expired>>
           /\ \E clash \in (IF moved = {} THEN {FALSE} ELSE BOOLEAN) :
                 IF clash \/ ~ Constraints(rows, sets) \/ ~ Constraints(held, sets)
                 THEN /\ result' = InternalServerError
                      /\ UNCHANGED <<set_post, pending>>
                 ELSE /\ Cardinality(set_post) < MaxEntries
                      /\ Cardinality(pending) < MaxPending
                      /\ set_post' = rows
                      /\ pending' = pending \cup
                             {Put(k.set_id, [k.iset EXCEPT !.count = @ + 1])}
                      /\ result' = Ok(Absent)

\* The statement of remove_post_from_set ends, lines 377-395, and then 397-398
CommitRemove(t) ==
    /\ Idle
    /\ At(t, "remove_post_from_set", "running")
    /\ LET k == tasks[t][1]
           rows == RemoveQueryRC(set_post, k.snap, k.gone, k.set_id, k.post_id)
           moved == RemoveMovedRC(set_post, k.snap, k.gone, k.set_id, k.post_id)
           deleted == DeletedRC(set_post, k.snap, k.gone, k.set_id, k.post_id)
       IN  /\ op' = Request("remove_post_from_set", k.user, k.set_id, k.post_id, 0, Absent)
           /\ before' = Found
           /\ last_removed' = NoRemoval
           /\ UNCHANGED <<sets, kvs, now, expired>>
           /\ \E clash \in (IF Cardinality(moved) < 2 THEN {FALSE} ELSE BOOLEAN) :
                 IF clash \/ ~ Constraints(rows, sets)
                 THEN /\ result' = InternalServerError
                      /\ tasks' = Leave(t, {})
                      /\ UNCHANGED <<set_post, pending>>
                 ELSE /\ WithinDrift(RemovedCount(k.iset), rows)
                      /\ Cardinality(pending) < MaxPending
                      /\ set_post' = rows
                      /\ tasks' = Leave(t, deleted)
                      /\ pending' = pending \cup {Put(k.set_id, RemovedCount(k.iset))}
                      /\ result' = Ok(Absent)

\* update_set up to the UPDATE: lines 242-282
BeginUpdate(t, user, set_id, req) ==
    LET loaded == _get_set(set_id)
        acc == MaskLoop([iset |-> loaded[1], query |-> << >>, bad_mask |-> << >>],
                        req, req.mask)
        refused == IF loaded = Absent THEN TRUE
                   ELSE ~ CoroutineTruth(_verify_authorized(user, loaded[1]))
    IN  /\ Idle
        /\ FreeSlot(t)
        /\ kvs' = Populate(set_id)
        /\ last_removed' = NoRemoval
        /\ UNCHANGED <<sets, set_post, pending, now, expired>>
        /\ IF refused
           THEN /\ op' = Request("update_set", user, set_id, 0, 0, req.mask)
                /\ before' = Found
                /\ result' = NotFound(set_not_found_err(set_id))
                /\ UNCHANGED tasks
           ELSE IF acc.bad_mask # << >>
           THEN /\ op' = Request("update_set", user, set_id, 0, 0, req.mask)
                /\ before' = Found
                /\ result' = BadRequest(BadMaskMessage(acc.bad_mask))
                /\ UNCHANGED tasks
           ELSE /\ tasks' = [tasks EXCEPT ![t] = Some(Task("update_set", user,
                                 set_id, 0, 0, "loaded", acc.iset, acc.query))]
                /\ UNCHANGED <<op, result, before>>

\* The UPDATE of update_set, lines 284-296, and then 298-299
CommitUpdate(t) ==
    /\ Idle
    /\ At(t, "update_set", "loaded")
    /\ now <= MaxClock
    /\ LET k == tasks[t][1]
       IN  /\ op' = Request("update_set", k.user, k.set_id, 0, 0, Absent)
           /\ before' = Found
           /\ tasks' = Leave(t, {})
           /\ last_removed' = NoRemoval
           /\ now' = now + 1
           /\ UNCHANGED <<set_post, kvs, expired>>
           /\ sets' = (sets \ SetRow(k.set_id)) \cup
                  {UpdateRow(r, k.query, now) : r \in SetRow(k.set_id)}
           /\ IF SetRow(k.set_id) = {}
              THEN /\ result' = InternalServerError
                   /\ UNCHANGED pending
              ELSE /\ Cardinality(pending) < MaxPending
                   /\ result' = Ok(Absent)
                   /\ pending' = pending \cup
                          {Put(k.set_id, [k.iset EXCEPT !.updated = now])}

\* delete_set up to the DELETEs: lines 304-307
BeginDelete(t, user, set_id) ==
    LET loaded == _get_set(set_id)
        refused == IF loaded = Absent THEN TRUE
                   ELSE ~ CoroutineTruth(_verify_authorized(user, loaded[1]))
    IN  /\ Idle
        /\ FreeSlot(t)
        /\ kvs' = Populate(set_id)
        /\ last_removed' = NoRemoval
        /\ UNCHANGED <<sets, set_post, pending, now, expired>>
        /\ IF refused
           THEN /\ op' = Request("delete_set", user, set_id, 0, 0, Absent)
                /\ before' = Found
                /\ result' = NotFound(set_not_found_err(set_id))
                /\ UNCHANGED tasks
           ELSE /\ tasks' = [tasks EXCEPT ![t] = Some(Task("delete_set", user,
                                 set_id, 0, 0, "loaded", loaded[1], << >>))]
                /\ UNCHANGED <<op, result, before>>

\* The two DELETEs of delete_set commit: lines 309-317
CommitDelete(t) ==
    /\ Idle
    /\ At(t, "delete_set", "loaded")
    /\ LET k == tasks[t][1]
       IN  /\ set_post' = DeleteEntries(set_post, k.set_id)
           /\ sets' = sets \ SetRow(k.set_id)
           /\ tasks' = [Keep(t, SetEntries(set_post, k.set_id)) EXCEPT
                           ![t] = Some([k EXCEPT !.pc = "committed"])]
    /\ UNCHANGED <<kvs, pending, now, op, result, expired, before, last_removed>>

\* await SetKVS.remove_async(set_id): line 319
FinishDelete(t) ==
    /\ Idle
    /\ At(t, "delete_set", "committed")
    /\ LET k == tasks[t][1]
       IN  /\ op' = Request("delete_set", k.user, k.set_id, 0, 0, Absent)
           /\ before' = Found
           /\ kvs' = [kvs EXCEPT ![k.set_id] = Absent]
           /\ result' = Ok(Absent)
           /\ tasks' = Leave(t, {})
    /\ last_removed' = NoRemoval
    /\ UNCHANGED <<sets, set_post, pending, now, expired>>

RaceGetSet ==
    \E u \in RaceCallers, s \in RaceSets : Idle /\ get_set(u, s) /\ UNCHANGED tasks

RaceAdd ==
    \E t \in Slots, u \in RaceCallers, p \in RacePosts, s \in RaceSets, i \in RaceIndices :
        BeginAdd(t, u, p, s, i)

\* an add at the end of the set
RaceAppend ==
    \E t \in Slots, u \in RaceCallers, s \in RaceSets : BeginAdd(t, u, 200, s, FarIndex)

RaceRemove ==
    \E t \in Slots, u \in RaceCallers, p \in RaceRemovals, s \in RaceSets :
        BeginRemove(t, u, p, s)

RaceUpdate ==
    \E t \in Slots, u \in RaceCallers, s \in RaceSets, req \in RaceRequests :
        BeginUpdate(t, u, s, req)

RaceDelete ==
    \E t \in Slots, u \in RaceCallers, s \in RaceSets : BeginDelete(t, u, s)

Statement == \E t \in Slots : StartStatement(t)
AddCommits == \E t \in Slots : CommitAdd(t)
RemoveCommits == \E t \in Slots : CommitRemove(t)
UpdateCommits == \E t \in Slots : CommitUpdate(t)
DeleteCommits == \E t \in Slots : CommitDelete(t)
DeleteFinishes == \E t \in Slots : FinishDelete(t)

\* Only inserts overlap.
AddRaceNext ==
    \/ RaceAdd
    \/ Statement
    \/ AddCommits
    \/ Return
    \/ CachePut

AddRaceSpec == RaceInit /\ [][AddRaceNext]_vars

\* The requests that change a set overlap.
RaceNext ==
    \/ RaceAppend
    \/ RaceRemove
    \/ RaceUpdate
    \/ Statement
    \/ AddCommits
    \/ RemoveCommits
    \/ UpdateCommits
    \/ Return
    \/ CachePut

RaceSpec == RaceInit /\ [][RaceNext]_vars

\* delete_set overlaps reads, adds and updates of the set.
DeleteRaceNext ==
    \/ RaceGetSet
    \/ RaceAppend
    \/ RaceUpdate
    \/ RaceDelete
    \/ Statement
    \/ AddCommits
    \/ UpdateCommits
    \/ DeleteCommits
    \/ DeleteFinishes
    \/ Return
    \/ CachePut

DeleteRaceSpec == RaceInit /\ [][DeleteRaceNext]_vars

\* get_post_sets asked about stores the requests above lead to: set 1 of
\* user 7 holds the posts 100, 200, ... in this order, set 2 holds the first
\* posts of OtherPosts.
WindowStore(n1, n2) ==
    {[set_id |-> 1, post_id |-> WindowPost(k), index |-> k] : k \in 0 .. (n1 - 1)}
    \cup {[set_id |-> 2, post_id |-> OtherPosts[k + 1], index |-> k] : k \in 0 .. (n2 - 1)}

WindowSets(owner2) ==
    {[set_id |-> 1, owner |-> 7, title |-> "Favorites", description |-> Absent,
      privacy |-> privacy_to_id("public"), created |-> 1, updated |-> 1],
     [set_id |-> 2, owner |-> owner2, title |-> "Favorites", description |-> Absent,
      privacy |-> privacy_to_id("public"), created |-> 1, updated |-> 1]}

PostSetsInit ==
    /\ \E owner2 \in {7, 8} : sets = WindowSets(owner2)
    /\ \E n1 \in 0 .. MaxWindowEntries, n2 \in 0 .. Len(OtherPosts) :
          set_post = WindowStore(n1, n2)
    /\ kvs = [s \in SetIds |-> Absent]
    /\ pending = {}
    /\ now = 1
    /\ op = NoRequest
    /\ result = Ok(Absent)
    /\ before = Absent
    /\ expired = 0
    /\ last_removed = NoRemoval
    /\ tasks = NoTasks

GetPostSets ==
    \E u \in Users, k \in 0 .. MaxWindowEntries :
        Ready /\ get_post_sets(u, WindowPost(k)) /\ UNCHANGED tasks

PostSetsNext ==
    \/ GetPostSets
    \/ Return

PostSetsSpec == PostSetsInit /\ [][PostSetsNext]_vars

\* Two sets that share a post: set 1 of user 7 holds post 100, set 2 of
\* user 8 holds posts 100 and 200, as create_set and add_post_to_set leave
\* the tables and the cache; then posts are added and removed and the sets
\* updated, one request at a time.
SharedStore ==
    {[set_id |-> 1, post_id |-> 100, index |-> 0],
     [set_id |-> 2, post_id |-> 100, index |-> 0],
     [set_id |-> 2, post_id |-> 200, index |-> 1]}

SharedRecord(set_id, owner) ==
    [set_id |-> set_id, owner |-> owner,
     count |-> Cardinality(SetEntries(SharedStore, set_id)), title |-> "Favorites",
     description |-> Absent, privacy |-> "public", created |-> 1, updated |-> 1,
     first |-> Absent, last |-> Absent]

SharedInit ==
    /\ sets = WindowSets(8)
    /\ set_post = SharedStore
    /\ kvs = [s \in SetIds |-> Some(SharedRecord(s, IF s = 1 THEN 7 ELSE 8))]
    /\ pending = {}
    /\ now = 1
    /\ op = NoRequest
    /\ result = Ok(Absent)
    /\ before = Absent
    /\ expired = 0
    /\ last_removed = NoRemoval
    /\ tasks = NoTasks

SharedNext ==
    \/ UpdateSet
    \/ AddPostToSet
    \/ RemovePostFromSet
    \/ Return
    \/ CachePut

SharedSpec == SharedInit /\ [][SharedNext]_vars

\* ===================================================================== claims
Was == before[1]
Acted(name) == op.name = name
Succeeded(name) == op.name = name /\ result.kind = "ok"
Shifted(r, by) == [r EXCEPT !.index = @ + by]

\* C1: for every set, whatever add_post_to_set and remove_post_from_set
\* requests were served (successful or failed), the indices of the set's rows
\* are exactly 0 .. n-1, n the number of its rows: no gap, no duplicate.
C1_DenseIndices ==
    \A s \in SetIds :
        LET rows == SetEntries(set_post, s)
        IN  /\ {r.index : r \in rows} = 0 .. (Cardinality(rows) - 1)
            /\ \A r, q \in rows : r.index = q.index => r = q

\* C1 witness: a removal of the entry at index 0 of a set of three has been
\* served, and two entries are left.
C1_Witness ==
    /\ Succeeded("remove_post_from_set")
    /\ \E r \in Was.set_post :
          r.set_id = op.set_id /\ r.post_id = op.post_id /\ r.index = 0
    /\ Cardinality(SetEntries(set_post, op.set_id)) = 2

\* C2: a successful add_post_to_set(post, set, index) puts the new entry at
\* e = min(index, number of entries before the insert); every entry that was
\* at an index >= e is one higher, every entry below e is where it was; so a
\* requested index at or beyond the count appends.
C2_AddAtClampedIndex ==
    Succeeded("add_post_to_set") =>
        LET old == SetEntries(Was.set_post, op.set_id)
            new == SetEntries(set_post, op.set_id)
            e == IF op.index <= Cardinality(old) THEN op.index ELSE Cardinality(old)
        IN  /\ [set_id |-> op.set_id, post_id |-> op.post_id, index |-> e] \in new
            /\ \A r \in old : IF r.index >= e THEN Shifted(r, 1) \in new ELSE r \in new
            /\ Cardinality(new) = Cardinality(old) + 1
            /\ (op.index >= Cardinality(old) =>
                    \A r \in new : r.post_id = op.post_id <=> r.index = Cardinality(old))

\* C2 witness: an insert in the middle (one entry below, one at or above the
\* requested index) has been served.
C2_Witness ==
    /\ Succeeded("add_post_to_set")
    /\ op.index = 1
    /\ Cardinality(SetEntries(Was.set_post, op.set_id)) = 2

\* C2, the scenario: the second of two adds at index 5 into an empty set has
\* been served and landed at index 1.
C2_TwoAddsAtFive ==
    /\ Succeeded("add_post_to_set")
    /\ op.index = FarIndex
    /\ \E r, q \in SetEntries(set_post, op.set_id) :
          r.index = 0 /\ q.index = 1 /\ q.post_id = op.post_id

\* C3: remove_post_from_set(p) lowers by one exactly the entries that were
\* above the removed one and leaves the lower ones alone; and when
\* add_post_to_set(p, any index) follows it, the other members are in the
\* order they had before the removal and the indices are dense.
C3_RemoveThenAdd ==
    /\ Succeeded("remove_post_from_set") =>
          LET old == SetEntries(Was.set_post, op.set_id)
              gone == {r \in old : r.post_id = op.post_id}
          IN  SetEntries(set_post, op.set_id) =
                  {r \in old \ gone : \A d \in gone : r.index < d.index}
                  \cup {Shifted(r, 0 - 1) : r \in {x \in old \ gone :
                                                     \E d \in gone : x.index > d.index}}
    /\ (Succeeded("add_post_to_set") /\ last_removed # NoRemoval) =>
          LET rows == SetEntries(set_post, op.set_id)
          IN  /\ OrderOf({r \in rows : r.post_id # op.post_id}) = last_removed[1].order
              /\ {r.index : r \in rows} = 0 .. (Cardinality(rows) - 1)

\* C3 witness: a post was removed from a set of three and added again, at a
\* place other than the end.
C3_Witness ==
    /\ Succeeded("add_post_to_set")
    /\ last_removed # NoRemoval
    /\ Len(last_removed[1].order) = 2
    /\ op.index < 2

\* What the cache holds for every set is what it held, or what a miss loaded.
CacheUntouched ==
    \A s \in SetIds :
        \/ kvs[s] = Was.kvs[s]
        \/ Was.kvs[s] = Absent /\ kvs[s] = StoreLoad(s)

\* C4: requests served one after the other, every cache write completed: the
\* count of the record the Set Cache holds, and of the Set get_set returns,
\* is the number of rows the store holds for the set.
C4_CachedCountIsRowCount ==
    /\ (Idle /\ pending = {}) =>
          \A s \in SetIds :
              kvs[s] # Absent =>
                  kvs[s][1].count = Cardinality(SetEntries(set_post, s))
    /\ Succeeded("get_set") =>
          result.value[1].count = Cardinality(SetEntries(set_post, op.set_id))

\* C5: the Set get_set returns has first = the post at index 0 and last = the
\* post at the highest index, both absent when the set has no entries.
C5_FirstAndLast ==
    Succeeded("get_set") =>
        LET rows == SetEntries(set_post, op.set_id)
            v == result.value[1]
        IN  IF rows = {}
            THEN v.first = Absent /\ v.last = Absent
            ELSE /\ \E r \in rows : r.index = 0 /\ v.first = Some(r.post_id)
                 /\ \E r \in rows : /\ r.index = Cardinality(rows) - 1
                                     /\ v.last = Some(r.post_id)

\* C6: remove_post_from_set by an authorized caller, for a post that is not
\* in the set, succeeds and changes nothing: the rows are the same and the
\* record it writes to the Set Cache has the count the cache held.
C6_RemoveNonMemberNoOp ==
    ( /\ Acted("remove_post_from_set")
      /\ post_authorized(op.post_id, op.user)
      /\ Was.kvs[op.set_id] # Absent
      /\ authorized(Was.kvs[op.set_id][1], op.user)
      /\ \A r \in Was.set_post :
            ~ (r.set_id = op.set_id /\ r.post_id = op.post_id) )
    => /\ result.kind = "ok"
       /\ set_post = Was.set_post
       /\ \A w \in pending :
             w.set_id = op.set_id =>
                 w.iset.count = Was.kvs[op.set_id][1].count

\* C7: update_set and delete_set asked by a caller who neither owns the set
\* nor is a moderator fail with NotFound and change nothing.
C7_UnauthorizedChangesNothing ==
    ( /\ Acted("update_set") \/ Acted("delete_set")
      /\ op.user \notin Mods
      /\ \E t \in Was.sets : t.set_id = op.set_id /\ t.owner # op.user )
    => /\ result.kind = "NotFound"
       /\ sets = Was.sets
       /\ set_post = Was.set_post
       /\ pending = Was.pending
       /\ CacheUntouched

\* The one answer to a get_set that is refused: it depends on the id alone.
SetNotFoundOutcome(set_id) ==
    [kind |-> "NotFound",
     msg |-> "no data was found for the provided set id: " \o ToString(set_id) \o ".",
     value |-> Absent]

C9_UnauthorizedMembership ==
    (Acted("add_post_to_set") \/ Acted("remove_post_from_set")) =>
        LET post_ok == \/ op.post_id \notin PrivatePosts
                       \/ Uploader[op.post_id] = op.user
                       \/ op.user \in Mods
            set_refused == \E t \in Was.sets :
                              /\ t.set_id = op.set_id
                              /\ t.owner # op.user
                              /\ op.user \notin Mods
            post_answer == "no data was found for the provided post id: "
                              \o ToString(op.post_id) \o "."
        IN  /\ (~ post_ok \/ set_refused) =>
                  /\ result.kind = "NotFound"
                  /\ set_post = Was.set_post
                  /\ pending = Was.pending
                  /\ CacheUntouched
            /\ ~ post_ok => result.msg = post_answer
            /\ (post_ok /\ set_refused) =>
                  result = SetNotFoundOutcome(op.set_id)
            /\ post_answer # SetNotFoundOutcome(op.set_id).msg

\* C9 witness: an add to another user's set, of a post the caller may use,
\* has been refused.
C9_Witness ==
    /\ Acted("add_post_to_set")
    /\ op.post_id \notin PrivatePosts
    /\ op.user \notin Mods
    /\ \E t \in Was.sets : t.set_id = op.set_id /\ t.owner # op.user
    /\ result.kind = "NotFound"
    /\ SetEntries(set_post, op.set_id) # {}

ValidMask == {"owner", "title", "description", "privacy"}
Unrecognized(name) == name \notin ValidMask

\* C10: update_set of a set that is there, with a mask holding a name outside
\* owner, title, description, privacy, fails with the BadRequest that lists
\* all the names it does not know, in their order, and applies nothing: the
\* sets row with its updated timestamp and the cache record are as before.
C10_BadMaskRejectsAll ==
    ( /\ Acted("update_set")
      /\ Was.kvs[op.set_id] # Absent
      /\ \E i \in 1 .. Len(op.mask) : Unrecognized(op.mask[i]) )
    => /\ result.kind = "BadRequest"
       /\ result.msg = BadMaskMessage(SelectSeq(op.mask, Unrecognized))
       /\ sets = Was.sets
       /\ set_post = Was.set_post
       /\ kvs = Was.kvs
       /\ pending = Was.pending

\* C10 witness: a mask with a known name between two unknown ones has been
\* rejected.
C10_Witness ==
    /\ Acted("update_set")
    /\ op.mask = <<"bogus", "title", "junk">>
    /\ result.kind = "BadRequest"
    /\ Was.kvs[op.set_id] # Absent

\* C11: get_set on a set that exists, has no entries and is not in the Set
\* Cache loads it from the store and returns it to its owner with count 0
\* and first and last absent; the read path says NotFound only when there is
\* no sets row with the id.
C11_EmptySetLoads ==
    ( /\ Acted("get_set")
      /\ Was.kvs[op.set_id] = Absent
      /\ \E t \in Was.sets : t.set_id = op.set_id /\ t.owner = op.user )
    => /\ result.kind = "ok"
       /\ SetEntries(Was.set_post, op.set_id) = {} =>
             /\ result.value[1].count = 0
             /\ result.value[1].first = Absent
             /\ result.value[1].last = Absent

VisibleSetsOf(post_id, user) ==
    {t.set_id : t \in {x \in sets :
        /\ \E r \in set_post : r.set_id = x.set_id /\ r.post_id = post_id
        /\ (x.owner = user \/ user \in Mods)}}

\* C13: get_post_sets(caller, post) answers with one PostSet for every set
\* that holds the post and is authorized for the caller -- a set whose only
\* member is the post and every one of several sets included -- and with
\* none for the other sets.
C13_OnePerVisibleSet ==
    Acted("get_post_sets") =>
        /\ result.kind = "ok"
        /\ {ps.set_id : ps \in result.value[1]} = VisibleSetsOf(op.post_id, op.user)
        /\ \A ps, qs \in result.value[1] : ps.set_id = qs.set_id => ps = qs

\* The posts of a set at the indices lo .. hi, from the nearest to a side on
RECURSIVE Walk(_, _, _, _)
Walk(set_id, from, to, step) ==
    IF (step > 0 /\ from > to) \/ (step < 0 /\ from < to)
    THEN << >>
    ELSE LET here == {r \in set_post : r.set_id = set_id /\ r.index = from}
         IN  (IF here = {} THEN << >> ELSE <<(CHOOSE r \in here : TRUE).post_id>>)
                 \o Walk(set_id, from + step, to, step)

C15_FreshIdentifier ==
    /\ \A t, u \in sets : t.set_id = u.set_id => t = u
    /\ Acted("create_set") =>
          /\ result.kind = "ok"
          /\ result.value[1].set_id = op.set_id
          /\ result.value[1].count = 0
          /\ result.value[1].first = Absent /\ result.value[1].last = Absent
          /\ SetEntries(set_post, op.set_id) = {}
          /\ \A t \in Was.sets : t.set_id # op.set_id /\ t \in sets
          /\ Cardinality(sets) = Cardinality(Was.sets) + 1
          /\ set_post = Was.set_post

\* C15 witness: a second set has been created while the first holds entries.
C15_Witness ==
    /\ Succeeded("create_set")
    /\ Was.sets # {}
    /\ Was.set_post # {}
\* --------------------------------------------------- overlapping requests
Dense(rows, set_id) ==
    {r.index : r \in SetEntries(rows, set_id)} =
        0 .. (Cardinality(SetEntries(rows, set_id)) - 1)

OnePerIndex(rows, set_id) ==
    \A r, q \in SetEntries(rows, set_id) : r.index = q.index => r = q

\* C16: inserts into one set that overlap: at all times the indices of the
\* set are pairwise distinct and are 0 .. n-1, and every insert that succeeds
\* has done to the rows that stood when it committed exactly what the
\* statement does alone (count, shift and insert on the same rows), so no two
\* inserts succeed at one index taken from the same count.
C16_AddsAreAtomic ==
    /\ \A s \in SetIds : OnePerIndex(set_post, s) /\ Dense(set_post, s)
    /\ Succeeded("add_post_to_set") =>
          /\ set_post = AddQuery(Was.set_post, op.set_id, op.post_id, op.index)
          /\ \E r \in set_post :
                /\ r.set_id = op.set_id /\ r.post_id = op.post_id
                /\ r.index = Min(op.index, Cardinality(SetEntries(Was.set_post, op.set_id)))

\* C16 witness: an insert that would have gone through alone (the post is
\* not in the set, no row is to be moved) is aborted by the store, because
\* another insert committed after its statement had begun.
C16_Witness ==
    /\ Acted("add_post_to_set")
    /\ result = InternalServerError
    /\ \A r \in Was.set_post : ~ (r.set_id = op.set_id /\ r.post_id = op.post_id)
    /\ AddMoved(Was.set_post, op.set_id, op.index) = {}
    /\ Cardinality(SetEntries(set_post, op.set_id)) >= 2
    /\ set_post = Was.set_post

\* Every request has returned and every cache write has completed.
Quiescent == Idle /\ pending = {} /\ tasks = NoTasks

\* C17: requests that change one set overlap; once all of them have returned
\* and their cache writes have completed, the record the Set Cache holds for
\* the set has the count and the patched fields of the store.
C17_CacheFollowsStore ==
    Quiescent =>
        \A s \in SetIds : \A row \in SetRow(s) :
            kvs[s] # Absent =>
                /\ kvs[s][1].count = Cardinality(SetEntries(set_post, s))
                /\ kvs[s][1].title = row.title
                /\ kvs[s][1].updated = row.updated

\* C18: once delete_set has completed and the cache writes of the requests
\* that overlapped it have completed, the Set Cache holds no record of the
\* deleted set.
C18_NoRecordOfDeletedSet ==
    Quiescent => \A s \in SetIds : SetRow(s) = {} => kvs[s] = Absent

\* ------------------------------------------------ cache writes and commits
Mutations == {"create_set", "update_set", "add_post_to_set", "remove_post_from_set"}

\* C19: a request that changes a set dispatches its cache write only with
\* its committed statement: a create_set, update_set, add_post_to_set or
\* remove_post_from_set that fails leaves the store as it was and dispatches
\* nothing; one that dispatched a write succeeded, dispatched one write, for
\* its set, and the store holds its change.  delete_set removes the record
\* only when its rows are gone, and touches nothing when it fails.
C19_CacheWriteAfterCommit ==
    /\ op.name \in Mutations /\ result.kind # "ok" =>
          /\ pending = Was.pending
          /\ sets = Was.sets
          /\ set_post = Was.set_post
          /\ CacheUntouched
    /\ op.name \in Mutations /\ pending # Was.pending =>
          /\ result.kind = "ok"
          /\ Was.pending \subseteq pending
          /\ Cardinality(pending \ Was.pending) = 1
          /\ \A w \in pending \ Was.pending : w.set_id = op.set_id
          /\ SetRow(op.set_id) # {}
          /\ Acted("create_set") => Was.sets # sets
          /\ Acted("update_set") => Was.sets # sets
          /\ Acted("add_post_to_set") =>
                \E r \in set_post \ Was.set_post :
                    r.set_id = op.set_id /\ r.post_id = op.post_id
          /\ Acted("remove_post_from_set") => Deleted(set_post, op.set_id, op.post_id) = {}
    /\ op.name \in Mutations /\ result.kind = "ok" => pending # Was.pending
    /\ Acted("delete_set") =>
          /\ pending = Was.pending
          /\ result.kind # "ok" => sets = Was.sets /\ set_post = Was.set_post /\ CacheUntouched
          /\ result.kind = "ok" => SetRow(op.set_id) = {} /\ kvs[op.set_id] = Absent

\* C19 witness: the statement of an add on a cached set is refused by the
\* store, and no cache write is on its way.
C19_Witness ==
    /\ Acted("add_post_to_set")
    /\ result = InternalServerError
    /\ Was.kvs[op.set_id] # Absent
    /\ pending = {}

\* C20: add_post_to_set of a post the set already holds, by a caller who may
\* use the post and the set: the request fails, the rows of the set, their
\* indices and the cached record are as the request found them, no cache
\* write is dispatched; and no set ever holds a post twice.
C20_NoSecondEntry ==
    /\ \A r, q \in set_post : r.set_id = q.set_id /\ r.post_id = q.post_id => r = q
    /\ (/\ Acted("add_post_to_set")
        /\ Deleted(Was.set_post, op.set_id, op.post_id) # {}) =>
           /\ result.kind # "ok"
           /\ set_post = Was.set_post
           /\ sets = Was.sets
           /\ pending = Was.pending
           /\ kvs = Was.kvs

\* C20 witness: the post is in front of another entry of the set and is
\* added again at index 0: the store refuses after the caller passed both
\* checks, with rows that the statement would have moved.
C20_Witness ==
    /\ Acted("add_post_to_set")
    /\ result = InternalServerError
    /\ op.index = 0
    /\ Cardinality(SetEntries(set_post, op.set_id)) >= 2
    /\ \E r \in Was.set_post :
          r.set_id = op.set_id /\ r.post_id = op.post_id /\ r.index = 0

\* ------------------------------------------------------------ frame effects
OtherSets == SetIds \ {op.set_id}

\* C21: add_post_to_set and remove_post_from_set on a set, whatever their
\* outcome, leave the rows of every other set (post and index), its row of
\* sets, its cache record and the cache writes for it as they were, also
\* when the other set holds the same post.  update_set changes no row of
\* set_post; the record it writes to the cache has the count, first and last
\* of the record it loaded, and the records of the other sets are untouched.
C21_OtherSetsUntouched ==
    /\ (Acted("add_post_to_set") \/ Acted("remove_post_from_set")) =>
          /\ \A s \in OtherSets :
                /\ SetEntries(set_post, s) = SetEntries(Was.set_post, s)
                /\ kvs[s] = Was.kvs[s]
          /\ sets = Was.sets
          /\ \A w \in pending \ Was.pending : w.set_id = op.set_id
    /\ Acted("update_set") =>
          /\ set_post = Was.set_post
          /\ \A s \in OtherSets :
                /\ kvs[s] = Was.kvs[s]
                /\ SetRow(s) = {t \in Was.sets : t.set_id = s}
          /\ \A w \in pending \ Was.pending :
                /\ w.set_id = op.set_id
                /\ kvs[op.set_id] # Absent
                /\ w.iset.count = kvs[op.set_id][1].count
                /\ w.iset.first = kvs[op.set_id][1].first
                /\ w.iset.last = kvs[op.set_id][1].last
          /\ Was.kvs[op.set_id] # Absent => kvs[op.set_id] = Was.kvs[op.set_id]

\* C21 witness: a post is removed from one set while another set holds the
\* same post, followed by a further entry that a shift over all sets would
\* have moved.
C21_Witness ==
    /\ Succeeded("remove_post_from_set")
    /\ Deleted(Was.set_post, op.set_id, op.post_id) # {}
    /\ \E s \in OtherSets : \E r, q \in SetEntries(set_post, s) :
          /\ r.post_id = op.post_id
          /\ q.index > r.index
          /\ \E d \in Deleted(Was.set_post, op.set_id, op.post_id) : q.index >= d.index
====
